---- MODULE Spec2Model ----
(***************************************************************************)
(* Aura: critical-mood detection and escalation.                           *)
(*                                                                         *)
(* One request of one patient: /api/chat from the session checks to the    *)
(* JSON reply (Spec), /api/chat/stream with its response generator         *)
(* (StreamSpec) and the /voice/process webhook (VoiceSpec), with            *)
(* check_critical_mood_and_alert and call_doctor_for_critical_alert run     *)
(* inline where the code runs them.                                         *)
(*                                                                         *)
(* Ratings are held in tenths (1.5 is 15) so that the thresholds of the     *)
(* code compare exactly.  A text is a sequence of one-character strings.    *)
(* Every statement that talks to the database may raise (the store may be   *)
(* unavailable at that moment); the exception goes to the innermost         *)
(* enclosing except clause, as HandlerOf says.                              *)
(***************************************************************************)
EXTENDS Integers, Sequences, FiniteSets, TLC

\* ------------------------------------------------------------------ bounds
\* Number of SentimentSnapshot rows of the patient stored before the request.
MaxStored == 2

\* Ratings found in those stored rows, and ratings the scorer may return.
StoredValues == {15, 25}
ScoreValues == {5, 15, 16, 30}

Doctors == {"d1", "d2"}

\* Requests to /api/request-doctor that one patient has in flight at once.
Requesters == {"q1", "q2"}

\* Characters by which the longest utterance exceeds conversation_text[:200].
LongExtra == 5

\* Words of the generated reply that api_chat_stream yields one by one.
MaxWords == 2

\* ------------------------------------------------------- program constants
FloorThreshold == 15      \* sentiment_rating <= 1.5
AvgWindow == 3            \* recent_sentiments[:3], len >= 3, / 3
DeclineAvgMax == 20       \* avg_recent <= 2.0
DeclineDrop == 10         \* sentiment_rating < avg_recent - 1.0
HistoryLimit == 5         \* .limit(5)
SnippetLen == 200         \* conversation_text[:200]
NeutralRating == 30       \* sentiment_rating = 3.0 when scoring fails

\* ------------------------------------------------------------------- texts
UGiveUpSentence == <<"I", " ", "j", "u", "s", "t", " ", "w", "a", "n", "t", " ", "t", "o", " ", "g", "i", "v", "e", " ", "u", "p">>
UShout == <<"G", "I", "V", "E", " ", "U", "P">>
UNoPoint == <<"N", "o", " ", "P", "o", "i", "n", "t">>
UForgive == <<"f", "o", "r", "g", "i", "v", "e", " ", "u", "p", "s", "e", "t">>
UHello == <<"h", "e", "l", "l", "o">>
UGiveup == <<"g", "i", "v", "e", "u", "p">>
UTwo == <<"s", "u", "i", "c", "i", "d", "e", ",", " ", "I", " ", "w", "i", "l", "l", " ", "k", "i", "l", "l", " ", "m", "y", "s", "e", "l", "f">>

\* The messages a client may post; the empty one is refused with 400.
ShortUtterances == {UGiveUpSentence, UShout, UNoPoint, UForgive, UHello, UGiveup, UTwo}

UpperCase == <<"A", "B", "C", "D", "E", "F", "G", "H", "I", "J", "K", "L", "M", "N", "O", "P", "Q", "R", "S", "T", "U", "V", "W", "X", "Y", "Z">>
LowerCase == <<"a", "b", "c", "d", "e", "f", "g", "h", "i", "j", "k", "l", "m", "n", "o", "p", "q", "r", "s", "t", "u", "v", "w", "x", "y", "z">>

\* str.lower(), character by character.
LowerChar(c) ==
    IF \E i \in 1..Len(UpperCase) : UpperCase[i] = c
    THEN LowerCase[CHOOSE i \in 1..Len(UpperCase) : UpperCase[i] = c]
    ELSE c

Lower(text) == [i \in 1..Len(text) |-> LowerChar(text[i])]

\* Python's `sub in text` on strings: sub occurs at some offset of text.
Contains(sub, text) ==
    \E off \in 0..(Len(text) - Len(sub)) :
        \A k \in 1..Len(sub) : text[off + k] = sub[k]

\* text[:n]
Prefix(text, n) == SubSeq(text, 1, IF Len(text) < n THEN Len(text) ELSE n)

\* An utterance longer than the snippet kept with an Alert: "ahah..." and,
\* as its last characters, across the cut of [:200], "give up".
ULong ==
    LET n == SnippetLen + LongExtra
        tail == <<"g", "i", "v", "e", " ", "u", "p">>
    IN  [i \in 1..n |-> IF i > n - Len(tail) THEN tail[i - (n - Len(tail))]
                        ELSE IF i % 2 = 1 THEN "a" ELSE "h"]

Utterances == ShortUtterances \cup {ULong}

\* The messages posted to /api/chat/stream.
StreamUtterances == {UHello, UGiveUpSentence, UShout}

crisis_keywords == <<
    <<"s", "u", "i", "c", "i", "d", "e">>,
    <<"k", "i", "l", "l", " ", "m", "y", "s", "e", "l", "f">>,
    <<"e", "n", "d", " ", "i", "t", " ", "a", "l", "l">>,
    <<"h", "u", "r", "t", " ", "m", "y", "s", "e", "l", "f">>,
    <<"n", "o", " ", "p", "o", "i", "n", "t">>,
    <<"g", "i", "v", "e", " ", "u", "p">> >>

\* --------------------------------------------------------- decision policy
FloorStrict(sentiment_rating) == sentiment_rating < FloorThreshold

\* if sentiment_rating <= 1.5
FloorTriggered(sentiment_rating) == sentiment_rating <= FloorThreshold

\* sum(s.rating for s in recent_sentiments[:3]); avg_recent is this over 3.
RecentSum(recent) == recent[1] + recent[2] + recent[3]

AvgTruncated(sum) == sum \div AvgWindow

\* f"{avg_recent:.1f}": the sum over 3, rounded to one decimal (in tenths).
\* A third is never a tie, so rounding to nearest is (sum + 1) div 3.
AvgOneDecimal(sum) == (sum + 1) \div AvgWindow

DeclineNoAvgCap(sentiment_rating, recent) ==
    /\ Len(recent) >= AvgWindow
    /\ AvgWindow * sentiment_rating < RecentSum(recent) - AvgWindow * DeclineDrop

DeclineNonStrict(sentiment_rating, recent) ==
    /\ Len(recent) >= AvgWindow
    /\ RecentSum(recent) <= AvgWindow * DeclineAvgMax
    /\ AvgWindow * sentiment_rating <= RecentSum(recent) - AvgWindow * DeclineDrop

\* if len(recent_sentiments) >= 3: ... avg_recent <= 2.0 and
\* sentiment_rating < avg_recent - 1.0   (all sides multiplied by 3)
DeclineTriggered(sentiment_rating, recent) ==
    /\ Len(recent) >= AvgWindow
    /\ RecentSum(recent) <= AvgWindow * DeclineAvgMax
    /\ AvgWindow * sentiment_rating < RecentSum(recent) - AvgWindow * DeclineDrop

\* any(keyword in text_lower for keyword in crisis_keywords)
CrisisTriggered(conversation_text) ==
    \E i \in 1..Len(crisis_keywords) :
        Contains(crisis_keywords[i], Lower(conversation_text))

NotCritical == [is_critical |-> FALSE, alert_type |-> "None", rationale |-> <<>>]

FloorVerdict(sentiment_rating) ==
    [is_critical |-> TRUE, alert_type |-> "severe_depression",
     rationale |-> <<"Very low mood detected", sentiment_rating>>]

DeclineVerdict(sentiment_rating, recent) ==
    [is_critical |-> TRUE, alert_type |-> "severe_depression",
     rationale |-> <<"Rapid mood decline detected", sentiment_rating,
                     AvgOneDecimal(RecentSum(recent))>>]

CrisisVerdict ==
    [is_critical |-> TRUE, alert_type |-> "suicidal_ideation",
     rationale |-> <<"Crisis language detected in conversation">>]

\* The keyword block placed before the two rating blocks.
VerdictCrisisFirst(sentiment_rating, conversation_text, recent) ==
    LET v1 == IF CrisisTriggered(conversation_text) THEN CrisisVerdict ELSE NotCritical
        v2 == IF FloorTriggered(sentiment_rating)
              THEN FloorVerdict(sentiment_rating) ELSE v1
    IN  IF DeclineTriggered(sentiment_rating, recent)
        THEN DeclineVerdict(sentiment_rating, recent) ELSE v2

\* The three if-blocks in the order of the code: each that fires overwrites
\* is_critical, alert_type and rationale of the one before.
Verdict(sentiment_rating, conversation_text, recent) ==
    LET v1 == IF FloorTriggered(sentiment_rating)
              THEN FloorVerdict(sentiment_rating) ELSE NotCritical
        v2 == IF DeclineTriggered(sentiment_rating, recent)
              THEN DeclineVerdict(sentiment_rating, recent) ELSE v1
    IN  IF CrisisTriggered(conversation_text) THEN CrisisVerdict ELSE v2

DispatchAlways(v) == TRUE

\* if is_critical:
ShouldDispatch(v) == v.is_critical

AnyAssignments(rows) == rows

\* DoctorPatient.query.filter_by(patient_id=user_id, is_active=True)
ActiveAssignments(rows) == {r \in rows : r.is_active}

AlertRowFullText(v, sentiment_rating, conversation_text, recent) ==
    [severity |-> "critical",
     alert_type |-> v.alert_type,
     rationale |-> v.rationale,
     status |-> "active",
     trigger_data |-> [sentiment_rating |-> sentiment_rating,
                       conversation_snippet |-> conversation_text,
                       recent_ratings |-> recent]]

\* The Alert row of lines 75-85.
AlertRow(v, sentiment_rating, conversation_text, recent) ==
    [severity |-> "critical",
     alert_type |-> v.alert_type,
     rationale |-> v.rationale,
     status |-> "active",
     trigger_data |-> [sentiment_rating |-> sentiment_rating,
                       conversation_snippet |-> Prefix(conversation_text, SnippetLen),
                       recent_ratings |-> recent]]

\* One row for each rule that fired.
NewAlertsPerTrigger(v, sentiment_rating, conversation_text, recent) ==
    (IF FloorTriggered(sentiment_rating)
     THEN <<AlertRow(FloorVerdict(sentiment_rating), sentiment_rating, conversation_text, recent)>>
     ELSE <<>>)
    \o (IF DeclineTriggered(sentiment_rating, recent)
        THEN <<AlertRow(DeclineVerdict(sentiment_rating, recent), sentiment_rating, conversation_text, recent)>>
        ELSE <<>>)
    \o (IF CrisisTriggered(conversation_text)
        THEN <<AlertRow(CrisisVerdict, sentiment_rating, conversation_text, recent)>>
        ELSE <<>>)

\* The Alert is built and never added to the session.
NewAlertsNone(v, sentiment_rating, conversation_text, recent) == <<>>

\* The rows db.session.add() hands to the commit of line 87: one Alert.
NewAlerts(v, sentiment_rating, conversation_text, recent) ==
    <<AlertRow(v, sentiment_rating, conversation_text, recent)>>

ProceedsEvenIfCommitRaised(committed) == TRUE

\* Line 89 runs only when the commit of line 87 returned.
ProceedsToNotify(committed) == committed

\* ------------------------------------------------------ notification steps
\* elevenlabs_integration.is_configured()
is_configured(api_key, client) == api_key /\ client

\* create_conversation_with_agent: None without a key, on any exception of
\* the try block (requests.post raising, a timeout), and on a status other
\* than 200/201; the call data otherwise.
create_conversation_with_agent(api_key, outcome) ==
    IF ~api_key THEN "no_api_key"
    ELSE IF outcome = "exception" THEN "exception"
    ELSE IF outcome = "non_2xx" THEN "non_2xx"
    ELSE "sent"

ProviderOutcomes == {"ok", "exception", "non_2xx"}

\* send_twilio_message: delivers, reports a failure, or raises.
SmsOutcomes == {"sent", "failed", "raised"}

\* The voice call tried again while it fails.
AfterVoiceRetry(res) == IF res \in {"exception", "non_2xx"} THEN "cd_voice" ELSE "cd_sms"

\* Lines 146-149: whatever res is, the SMS is the next statement.
AfterVoice(res) == "cd_sms"

NoDispatcherTry(site) == "api_chat"

\* The except clause that receives an exception raised at a site.
HandlerOf(site) ==
    IF site \in {"cd_patient", "cd_payload", "cd_voice", "cd_sms"} THEN "call_doctor"
    ELSE IF site \in {"cc_load", "cc_lookup", "cc_commit", "cc_call"} THEN "check_critical"
    ELSE IF site \in {"st_generate", "st_score", "st_persist", "st_call", "st_complete"}
    THEN "api_chat_stream"
    ELSE IF site \in {"vo_generate", "vo_persist"} THEN "voice_process"
    ELSE "api_chat"

\* The statement that follows the call of check_critical_mood_and_alert:
\* line 390 in api_chat, line 465 in the generator of api_chat_stream.
AfterCheck(e) == IF e = "stream" THEN "st_complete" ELSE "chat_reply"

\* ------------------------------------------------------------------- state
VARIABLES
    elevenlabs,           \* [api_key, client]: ELEVENLABS_API_KEY is set, client is not None
    doctor_patients,      \* DoctorPatient rows of the patient: [doctor_id, is_active]
    doctor_phone,         \* User.phone of each doctor is non-empty
    sentiment_snapshots,  \* ratings of the patient's SentimentSnapshot rows, newest first
    messages,             \* Message rows: [sender, text]
    alerts,               \* Alert rows
    notification_logs,    \* NotificationLog rows
    log,                  \* records written through logger: <<level, message, detail>>
    pc,                   \* position of the request
    message,              \* data.get('message')
    sentiment_rating,     \* local of api_chat, argument of check_critical_mood_and_alert
    recent_sentiments,    \* local of check_critical_mood_and_alert
    evaluated,            \* lines 46-67 have run
    verdict,              \* is_critical, alert_type, rationale after line 67
    doctor,               \* doctor_assignment.doctor_id: "unset" before line 70, "none" if no row
    alert_commit,         \* "none", "ok" or "raised": the commit of line 87
    voice,                \* what became of the voice step
    sms,                  \* what became of the SMS step
    response,             \* the HTTP response; for a stream its status and last event
    entry,                \* the handler that accepted the utterance: "none" before
    scored,               \* analyze_sentiment: "none", "ok" or "failed"
    words_left,           \* words of ai_response.split() not yet yielded
    client_gone,          \* the client of the stream has disconnected
    assign_requests       \* api_request_doctor: position, doctor_id and status of each request

vars == <<elevenlabs, doctor_patients, doctor_phone, sentiment_snapshots, messages,
          alerts, notification_logs, log, pc, message, sentiment_rating,
          recent_sentiments, evaluated, verdict, doctor, alert_commit, voice, sms,
          response, entry, scored, words_left, client_gone, assign_requests>>

request == <<entry, words_left, client_gone>>

store == <<doctor_patients, doctor_phone, sentiment_snapshots, messages, alerts,
           notification_logs>>

locals == <<message, sentiment_rating, recent_sentiments, evaluated, verdict, doctor,
            alert_commit, voice, sms>>

SeqsUpTo(S, n) == UNION {[1..k -> S] : k \in 0..n}

NoResponse == [status |-> 0, body |-> "none"]

NoAssignRequests == [q \in Requesters |-> [pc |-> "idle", doctor_id |-> "none", status |-> 0]]

\* The database and the configuration as earlier requests and the process
\* start left them.  (doctor_id, patient_id) is unique, so a doctor has at
\* most one row for the patient; phone is a nullable column.
Init ==
    /\ elevenlabs \in {e \in [api_key : BOOLEAN, client : BOOLEAN] : e.client => e.api_key}
    /\ doctor_patients \in {rows \in SUBSET [doctor_id : Doctors, is_active : BOOLEAN] :
            \A r1, r2 \in rows : r1.doctor_id = r2.doctor_id => r1 = r2}
    /\ doctor_phone \in {f \in [Doctors -> BOOLEAN] : f["d1"]}
    /\ sentiment_snapshots \in SeqsUpTo(StoredValues, MaxStored)
    /\ messages = <<>>
    /\ alerts = <<>>
    /\ notification_logs = <<>>
    /\ log = {}
    /\ pc = "idle"
    /\ message = <<>>
    /\ sentiment_rating = NeutralRating
    /\ recent_sentiments = <<>>
    /\ evaluated = FALSE
    /\ verdict = NotCritical
    /\ doctor = "unset"
    /\ alert_commit = "none"
    /\ voice = "none"
    /\ sms = "none"
    /\ response = NoResponse
    /\ entry = "none"
    /\ scored = "none"
    /\ words_left = 0
    /\ client_gone = FALSE
    /\ assign_requests = NoAssignRequests

\* An exception raised at `site` reaches its except clause, which logs it.
\* call_doctor_for_critical_alert returns to line 91, check_critical_mood_and_alert
\* returns to its caller, api_chat answers 500, the generator of
\* api_chat_stream yields the error event, voice_process says its apology.
Raise(site) ==
    IF HandlerOf(site) = "call_doctor"
    THEN /\ log' = log \cup {<<"error", "Failed to notify doctor of critical alert", site>>,
                             <<"critical", "Critical alert triggered", "doctor notified">>}
         /\ pc' = AfterCheck(entry)
         /\ UNCHANGED response
    ELSE IF HandlerOf(site) = "check_critical"
    THEN /\ log' = log \cup {<<"error", "Error in critical mood check", site>>}
         /\ pc' = AfterCheck(entry)
         /\ UNCHANGED response
    ELSE IF HandlerOf(site) = "api_chat_stream"
    THEN /\ log' = log \cup {<<"error", "Streaming error", site>>}
         /\ pc' = "done"
         /\ response' = [status |-> 200, body |-> "Stream failed."]
    ELSE IF HandlerOf(site) = "voice_process"
    THEN /\ log' = log \cup {<<"error", "Voice processing error", site>>}
         /\ pc' = "done"
         /\ response' = [status |-> 200, body |-> "I apologize for the technical issue."]
    ELSE /\ log' = log \cup {<<"error", "Chat error", site>>}
         /\ pc' = "done"
         /\ response' = [status |-> 500, body |-> "I apologize, but I encountered a technical issue."]

\* ------------------------------------------------------------------ api_chat
\* Lines 277-287: the session and the body of the request.
ChatStart ==
    /\ pc = "idle"
    /\ \E kind \in {"none", "doctor", "patient"}, msg \in Utterances \cup {<<>>} :
        IF kind = "none"
        THEN /\ response' = [status |-> 401, body |-> "Not authenticated"]
             /\ pc' = "done"
             /\ UNCHANGED <<message, entry>>
        ELSE IF kind = "doctor"
        THEN /\ response' = [status |-> 403, body |-> "Unauthorized - patients only"]
             /\ pc' = "done"
             /\ UNCHANGED <<message, entry>>
        ELSE IF msg = <<>>
        THEN /\ response' = [status |-> 400, body |-> "Message is required"]
             /\ pc' = "done"
             /\ UNCHANGED <<message, entry>>
        ELSE /\ message' = msg
             /\ entry' = "chat"
             /\ pc' = "chat_generate"
             /\ UNCHANGED response
    /\ UNCHANGED <<elevenlabs, store, log, sentiment_rating, recent_sentiments,
                   evaluated, verdict, doctor, alert_commit, voice, sms>>
    /\ UNCHANGED <<scored, words_left, client_gone>>
    /\ UNCHANGED assign_requests

\* Lines 289-341: the context queries and the text generation; either may raise.
ChatGenerate ==
    /\ pc = "chat_generate"
    /\ \E ok \in BOOLEAN :
        IF ok THEN pc' = "chat_score" /\ UNCHANGED <<log, response>>
        ELSE Raise("chat_generate")
    /\ UNCHANGED <<elevenlabs, store, locals>>
    /\ UNCHANGED <<request, scored>>
    /\ UNCHANGED assign_requests

\* Lines 343-350: analyze_sentiment, or the neutral default when it raises.
ChatScore ==
    /\ pc = "chat_score"
    /\ \E ok \in BOOLEAN, rating \in ScoreValues :
        IF ok
        THEN sentiment_rating' = rating /\ scored' = "ok" /\ UNCHANGED log
        ELSE /\ sentiment_rating' = NeutralRating
             /\ scored' = "failed"
             /\ log' = log \cup {<<"warning", "Sentiment analysis failed", "chat_score">>}
    /\ pc' = "chat_persist"
    /\ UNCHANGED <<elevenlabs, store, message, recent_sentiments, evaluated, verdict,
                   doctor, alert_commit, voice, sms, response, request>>
    /\ UNCHANGED assign_requests

\* Lines 352-386: Conversation, the two Messages and the SentimentSnapshot in
\* one commit.  The new snapshot is the newest row of the patient.
ChatPersist ==
    /\ pc = "chat_persist"
    /\ \E ok \in BOOLEAN :
        IF ok
        THEN /\ messages' = messages \o <<[sender |-> "patient", text |-> message],
                                          [sender |-> "ai", text |-> "reply"]>>
             /\ sentiment_snapshots' = <<sentiment_rating>> \o sentiment_snapshots
             /\ pc' = "chat_call"
             /\ UNCHANGED <<log, response>>
        ELSE /\ Raise("chat_persist")
             /\ UNCHANGED <<messages, sentiment_snapshots>>
    /\ UNCHANGED <<elevenlabs, doctor_patients, doctor_phone, alerts, notification_logs,
                   locals>>
    /\ UNCHANGED <<request, scored>>
    /\ UNCHANGED assign_requests

\* Line 388: user.id is read again from the store (the commit of line 386
\* expired the loaded rows) before check_critical_mood_and_alert is entered.
ChatCall ==
    /\ pc = "chat_call"
    /\ \E ok \in BOOLEAN :
        IF ok THEN pc' = "cc_load" /\ UNCHANGED <<log, response>>
        ELSE Raise("chat_call")
    /\ UNCHANGED <<elevenlabs, store, locals>>
    /\ UNCHANGED <<request, scored>>
    /\ UNCHANGED assign_requests

\* Lines 390-395: the reply; conversation.id is read again from the store.
ChatReply ==
    /\ pc = "chat_reply"
    /\ \E ok \in BOOLEAN :
        IF ok
        THEN /\ response' = [status |-> 200, body |-> "reply"]
             /\ pc' = "done"
             /\ UNCHANGED log
        ELSE Raise("chat_reply")
    /\ UNCHANGED <<elevenlabs, store, locals>>
    /\ UNCHANGED <<request, scored>>
    /\ UNCHANGED assign_requests

\* --------------------------------------------- check_critical_mood_and_alert
\* Lines 38-67: the user row, the five newest snapshots and the three rules.
\* The session's user_type was copied from the user row at login, so the row
\* read here is a patient and line 40 does not return.
CcLoad ==
    /\ pc = "cc_load"
    /\ \E ok \in BOOLEAN :
        IF ok
        THEN LET recent == Prefix(sentiment_snapshots, HistoryLimit)
                 v == Verdict(sentiment_rating, message, recent)
             IN  /\ recent_sentiments' = recent
                 /\ evaluated' = TRUE
                 /\ verdict' = v
                 /\ pc' = IF ShouldDispatch(v) THEN "cc_lookup" ELSE AfterCheck(entry)
                 /\ UNCHANGED <<log, response>>
        ELSE /\ Raise("cc_load")
             /\ UNCHANGED <<recent_sentiments, evaluated, verdict>>
    /\ UNCHANGED <<elevenlabs, store, message, sentiment_rating, doctor, alert_commit,
                   voice, sms>>
    /\ UNCHANGED <<request, scored>>
    /\ UNCHANGED assign_requests

\* Lines 69-74 and 92-93: .first() of the active assignments, in no stated
\* order; the warning when there is none.
CcLookup ==
    /\ pc = "cc_lookup"
    /\ \E ok \in BOOLEAN :
        IF ~ok
        THEN Raise("cc_lookup") /\ UNCHANGED doctor
        ELSE IF ActiveAssignments(doctor_patients) = {}
        THEN /\ doctor' = "none"
             /\ log' = log \cup {<<"warning", "Critical patient has no assigned doctor for emergency contact", "cc_lookup">>}
             /\ pc' = AfterCheck(entry)
             /\ UNCHANGED response
        ELSE /\ \E row \in ActiveAssignments(doctor_patients) : doctor' = row.doctor_id
             /\ pc' = "cc_commit"
             /\ UNCHANGED <<log, response>>
    /\ UNCHANGED <<elevenlabs, store, message, sentiment_rating, recent_sentiments,
                   evaluated, verdict, alert_commit, voice, sms>>
    /\ UNCHANGED <<request, scored>>
    /\ UNCHANGED assign_requests

\* Lines 75-87: the Alert row and its commit.
CcCommit ==
    /\ pc = "cc_commit"
    /\ \E ok \in BOOLEAN :
        /\ alert_commit' = IF ok THEN "ok" ELSE "raised"
        /\ alerts' = IF ok
                     THEN alerts \o NewAlerts(verdict, sentiment_rating, message, recent_sentiments)
                     ELSE alerts
        /\ IF ProceedsToNotify(ok)
           THEN pc' = "cc_call" /\ UNCHANGED <<log, response>>
           ELSE Raise("cc_commit")
    /\ UNCHANGED <<elevenlabs, doctor_patients, doctor_phone, sentiment_snapshots,
                   messages, notification_logs, message, sentiment_rating,
                   recent_sentiments, evaluated, verdict, doctor, voice, sms>>
    /\ UNCHANGED <<request, scored>>
    /\ UNCHANGED assign_requests

\* ------------------------------------------- call_doctor_for_critical_alert
\* Line 89 loads doctor_assignment.doctor (inside the try of the caller);
\* lines 100-102 return when the doctor has no phone, and line 91 follows.
CcCallDoctor ==
    /\ pc = "cc_call"
    /\ \E ok \in BOOLEAN :
        IF ~ok
        THEN Raise("cc_call")
        ELSE IF ~doctor_phone[doctor]
        THEN /\ log' = log \cup {<<"error", "Doctor has no phone number for emergency contact", "cc_call">>,
                                 <<"critical", "Critical alert triggered", "doctor notified">>}
             /\ pc' = AfterCheck(entry)
             /\ UNCHANGED response
        ELSE pc' = "cd_patient" /\ UNCHANGED <<log, response>>
    /\ UNCHANGED <<elevenlabs, store, locals>>
    /\ UNCHANGED <<request, scored>>
    /\ UNCHANGED assign_requests

\* Lines 104-105: the patient row and the alert type, used by both channels.
CdPatient ==
    /\ pc = "cd_patient"
    /\ \E ok \in BOOLEAN :
        IF ok THEN pc' = "cd_payload" /\ UNCHANGED <<log, response>>
        ELSE Raise("cd_patient")
    /\ UNCHANGED <<elevenlabs, store, locals>>
    /\ UNCHANGED <<request, scored>>
    /\ UNCHANGED assign_requests

\* Lines 107-136: the ten newest messages and the dynamic variables of the
\* voice call.  The query may raise; control then leaves the try block.
CdPayload ==
    /\ pc = "cd_payload"
    /\ \E ok \in BOOLEAN :
        IF ok
        THEN pc' = "cd_voice" /\ UNCHANGED <<log, response, voice>>
        ELSE Raise("cd_payload") /\ voice' = "prep_error"
    /\ UNCHANGED <<elevenlabs, store, message, sentiment_rating, recent_sentiments,
                   evaluated, verdict, doctor, alert_commit, sms>>
    /\ UNCHANGED <<request, scored>>
    /\ UNCHANGED assign_requests

\* Lines 138-147: the voice call when the channel is configured.
CdVoice ==
    /\ pc = "cd_voice"
    /\ IF is_configured(elevenlabs.api_key, elevenlabs.client)
       THEN \E outcome \in ProviderOutcomes :
                voice' = create_conversation_with_agent(elevenlabs.api_key, outcome)
       ELSE voice' = "not_configured"
    /\ pc' = AfterVoice(voice')
    /\ UNCHANGED <<elevenlabs, store, log, message, sentiment_rating, recent_sentiments,
                   evaluated, verdict, doctor, alert_commit, sms, response>>
    /\ UNCHANGED <<request, scored>>
    /\ UNCHANGED assign_requests

\* Lines 149-152 and 91: the SMS, the two log lines after it.
CdSms ==
    /\ pc = "cd_sms"
    /\ \E outcome \in SmsOutcomes :
        /\ sms' = outcome
        /\ IF outcome = "raised"
           THEN Raise("cd_sms")
           ELSE /\ log' = log \cup {<<"info", "Context-aware alert call initiated", "cd_sms">>,
                                    <<"critical", "Critical alert triggered", "doctor notified">>}
                /\ pc' = AfterCheck(entry)
                /\ UNCHANGED response
    /\ UNCHANGED <<elevenlabs, store, message, sentiment_rating, recent_sentiments,
                   evaluated, verdict, doctor, alert_commit, voice>>
    /\ UNCHANGED <<request, scored>>
    /\ UNCHANGED assign_requests

Next ==
    \/ ChatStart
    \/ ChatGenerate
    \/ ChatScore
    \/ ChatPersist
    \/ ChatCall
    \/ CcLoad
    \/ CcLookup
    \/ CcCommit
    \/ CcCallDoctor
    \/ CdPatient
    \/ CdPayload
    \/ CdVoice
    \/ CdSms
    \/ ChatReply

Spec == Init /\ [][Next]_vars

\* ----------------------------------------------------------- api_chat_stream
\* Lines 411-423 and 471: the checks of the view; the Response around the
\* generator is returned at once, with status 200.
StreamStart ==
    /\ pc = "idle"
    /\ \E kind \in {"none", "doctor", "patient"}, msg \in StreamUtterances \cup {<<>>} :
        IF kind = "none"
        THEN /\ response' = [status |-> 401, body |-> "Not authenticated"]
             /\ pc' = "done"
             /\ UNCHANGED <<message, entry>>
        ELSE IF kind = "doctor"
        THEN /\ response' = [status |-> 403, body |-> "Unauthorized - patients only"]
             /\ pc' = "done"
             /\ UNCHANGED <<message, entry>>
        ELSE IF msg = <<>>
        THEN /\ response' = [status |-> 400, body |-> "Message is required"]
             /\ pc' = "done"
             /\ UNCHANGED <<message, entry>>
        ELSE /\ message' = msg
             /\ entry' = "stream"
             /\ response' = [status |-> 200, body |-> "text/event-stream"]
             /\ pc' = "st_generate"
    /\ UNCHANGED <<elevenlabs, store, log, sentiment_rating, recent_sentiments,
                   evaluated, verdict, doctor, alert_commit, voice, sms>>
    /\ UNCHANGED <<scored, words_left, client_gone>>
    /\ UNCHANGED assign_requests

\* Lines 427-430: the text generation and ai_response.split().
StreamGenerate ==
    /\ pc = "st_generate"
    /\ \E ok \in BOOLEAN, n \in 0..MaxWords :
        IF ok
        THEN /\ words_left' = n
             /\ pc' = "st_words"
             /\ UNCHANGED <<log, response>>
        ELSE /\ Raise("st_generate")
             /\ UNCHANGED words_left
    /\ UNCHANGED <<elevenlabs, store, locals, entry, scored, client_gone>>
    /\ UNCHANGED assign_requests

\* Lines 431-432: the generator yields the next word and is suspended there
\* while the server writes it to the client.
StreamWord ==
    /\ pc = "st_words"
    /\ words_left > 0
    /\ words_left' = words_left - 1
    /\ response' = [status |-> 200, body |-> "word"]
    /\ pc' = "st_yield"
    /\ UNCHANGED <<elevenlabs, store, locals, log, entry, scored, client_gone>>
    /\ UNCHANGED assign_requests

\* Lines 433-434: the word was written; the generator is resumed and sleeps.
StreamResume ==
    /\ pc = "st_yield"
    /\ pc' = "st_words"
    /\ UNCHANGED <<elevenlabs, store, locals, log, response, request, scored>>
    /\ UNCHANGED assign_requests

\* The client has gone: the write fails, the server closes the generator at
\* the yield of line 432.  GeneratorExit is not an Exception, so the except
\* clause of line 467 is not entered and nothing after the loop runs.
StreamDisconnect ==
    /\ pc = "st_yield"
    /\ client_gone' = TRUE
    /\ pc' = "done"
    /\ UNCHANGED <<elevenlabs, store, locals, log, response, entry, words_left, scored>>
    /\ UNCHANGED assign_requests

\* Lines 436-442, after the last word: the user row and analyze_sentiment,
\* which is not inside a try of its own here.
StreamScore ==
    /\ pc = "st_words"
    /\ words_left = 0
    /\ \E ok \in BOOLEAN, outcome \in {"ok", "failed"}, rating \in ScoreValues :
        IF ~ok
        THEN /\ Raise("st_score")
             /\ UNCHANGED <<sentiment_rating, scored>>
        ELSE IF outcome = "failed"
        THEN /\ scored' = "failed"
             /\ Raise("st_score")
             /\ UNCHANGED sentiment_rating
        ELSE /\ scored' = "ok"
             /\ sentiment_rating' = rating
             /\ pc' = "st_persist"
             /\ UNCHANGED <<log, response>>
    /\ UNCHANGED <<elevenlabs, store, message, recent_sentiments, evaluated, verdict,
                   doctor, alert_commit, voice, sms, request>>
    /\ UNCHANGED assign_requests

\* Lines 444-461: Conversation, the two Messages and the SentimentSnapshot.
StreamPersist ==
    /\ pc = "st_persist"
    /\ \E ok \in BOOLEAN :
        IF ok
        THEN /\ messages' = messages \o <<[sender |-> "patient", text |-> message],
                                          [sender |-> "ai", text |-> "reply"]>>
             /\ sentiment_snapshots' = <<sentiment_rating>> \o sentiment_snapshots
             /\ pc' = "st_call"
             /\ UNCHANGED <<log, response>>
        ELSE /\ Raise("st_persist")
             /\ UNCHANGED <<messages, sentiment_snapshots>>
    /\ UNCHANGED <<elevenlabs, doctor_patients, doctor_phone, alerts, notification_logs,
                   locals, request, scored>>
    /\ UNCHANGED assign_requests

\* Line 463: user.id is read again from the store after the commit.
StreamCall ==
    /\ pc = "st_call"
    /\ \E ok \in BOOLEAN :
        IF ok THEN pc' = "cc_load" /\ UNCHANGED <<log, response>>
        ELSE Raise("st_call")
    /\ UNCHANGED <<elevenlabs, store, locals, request, scored>>
    /\ UNCHANGED assign_requests

\* Line 465: the complete event; conversation.id is read again from the store.
StreamComplete ==
    /\ pc = "st_complete"
    /\ \E ok \in BOOLEAN :
        IF ok
        THEN /\ response' = [status |-> 200, body |-> "complete"]
             /\ pc' = "done"
             /\ UNCHANGED log
        ELSE Raise("st_complete")
    /\ UNCHANGED <<elevenlabs, store, locals, request, scored>>
    /\ UNCHANGED assign_requests

StreamNext ==
    \/ StreamStart
    \/ StreamGenerate
    \/ StreamWord
    \/ StreamResume
    \/ StreamDisconnect
    \/ StreamScore
    \/ StreamPersist
    \/ StreamCall
    \/ CcLoad
    \/ CcLookup
    \/ CcCommit
    \/ CcCallDoctor
    \/ CdPatient
    \/ CdPayload
    \/ CdVoice
    \/ CdSms
    \/ StreamComplete

StreamSpec == Init /\ [][StreamNext]_vars

\* ------------------------------------------------------------- voice_process
\* Lines 566-582: the call context of the session and the SpeechResult.
VoiceStart ==
    /\ pc = "idle"
    /\ \E context \in BOOLEAN, speech \in Utterances \cup {<<>>} :
        IF ~context
        THEN /\ response' = [status |-> 400, body |-> "Call context not found"]
             /\ pc' = "done"
             /\ UNCHANGED <<message, entry>>
        ELSE IF speech = <<>>
        THEN /\ response' = [status |-> 200, body |-> "I didn't catch that."]
             /\ pc' = "done"
             /\ UNCHANGED <<message, entry>>
        ELSE /\ message' = speech
             /\ entry' = "voice"
             /\ pc' = "vo_generate"
             /\ UNCHANGED response
    /\ UNCHANGED <<elevenlabs, store, log, sentiment_rating, recent_sentiments,
                   evaluated, verdict, doctor, alert_commit, voice, sms>>
    /\ UNCHANGED <<scored, words_left, client_gone>>
    /\ UNCHANGED assign_requests

\* Lines 584-595: the text generation.
VoiceGenerate ==
    /\ pc = "vo_generate"
    /\ \E ok \in BOOLEAN :
        IF ok THEN pc' = "vo_persist" /\ UNCHANGED <<log, response>>
        ELSE Raise("vo_generate")
    /\ UNCHANGED <<elevenlabs, store, locals, request, scored>>
    /\ UNCHANGED assign_requests

\* Lines 597-622: the Conversation of the call and the two Messages.
VoicePersist ==
    /\ pc = "vo_persist"
    /\ \E ok \in BOOLEAN :
        IF ok
        THEN /\ messages' = messages \o <<[sender |-> "patient", text |-> message],
                                          [sender |-> "ai", text |-> "reply"]>>
             /\ pc' = "vo_score"
             /\ UNCHANGED <<log, response>>
        ELSE /\ Raise("vo_persist")
             /\ UNCHANGED messages
    /\ UNCHANGED <<elevenlabs, doctor_patients, doctor_phone, sentiment_snapshots,
                   alerts, notification_logs, locals, request, scored>>
    /\ UNCHANGED assign_requests

\* Lines 624-636: analyze_sentiment and the SentimentSnapshot in a try of
\* their own; the except clause logs and the reply follows.
VoiceScore ==
    /\ pc = "vo_score"
    /\ \E outcome \in {"ok", "failed", "commit_raised"}, rating \in ScoreValues :
        IF outcome = "failed"
        THEN /\ scored' = "failed"
             /\ log' = log \cup {<<"error", "Failed to analyze sentiment for voice", "vo_score">>}
             /\ UNCHANGED <<sentiment_rating, sentiment_snapshots>>
        ELSE IF outcome = "commit_raised"
        THEN /\ scored' = "ok"
             /\ sentiment_rating' = rating
             /\ log' = log \cup {<<"error", "Failed to analyze sentiment for voice", "vo_commit">>}
             /\ UNCHANGED sentiment_snapshots
        ELSE /\ scored' = "ok"
             /\ sentiment_rating' = rating
             /\ sentiment_snapshots' = <<rating>> \o sentiment_snapshots
             /\ UNCHANGED log
    /\ pc' = "vo_reply"
    /\ UNCHANGED <<elevenlabs, doctor_patients, doctor_phone, messages, alerts,
                   notification_logs, message, recent_sentiments, evaluated, verdict,
                   doctor, alert_commit, voice, sms, response, request>>
    /\ UNCHANGED assign_requests

\* Lines 638-656: the TwiML that says the reply and gathers the next speech.
VoiceReply ==
    /\ pc = "vo_reply"
    /\ response' = [status |-> 200, body |-> "reply"]
    /\ pc' = "done"
    /\ UNCHANGED <<elevenlabs, store, locals, log, request, scored>>
    /\ UNCHANGED assign_requests

VoiceNext ==
    \/ VoiceStart
    \/ VoiceGenerate
    \/ VoicePersist
    \/ VoiceScore
    \/ VoiceReply

VoiceSpec == Init /\ [][VoiceNext]_vars

\* -------------------------------------------------------- api_request_doctor
\* The requests of Requesters run in threads or workers of their own, each
\* with its own database session; their statements interleave.
SetRequest(q, position, status) ==
    assign_requests' = [assign_requests EXCEPT ![q].pc = position, ![q].status = status]

\* The except clause of lines 732-735.
RequestFailed(q) ==
    /\ SetRequest(q, "done", 500)
    /\ log' = log \cup {<<"error", "Error assigning doctor", q>>}

\* Lines 695-702: the session and the doctor_id of the body.
ReqStart(q) ==
    /\ assign_requests[q].pc = "idle"
    /\ \E patient \in BOOLEAN, doctor_id \in Doctors \cup {"none", "unknown"} :
        IF ~patient
        THEN SetRequest(q, "done", 401)
        ELSE IF doctor_id = "none"
        THEN SetRequest(q, "done", 400)
        ELSE assign_requests' = [assign_requests EXCEPT ![q].pc = "check",
                                                         ![q].doctor_id = doctor_id]
    /\ UNCHANGED <<elevenlabs, store, log, pc, locals, response, request, scored>>

\* Lines 705-711: the active assignment of the patient, if there is one.
ReqCheck(q) ==
    /\ assign_requests[q].pc = "check"
    /\ \E ok \in BOOLEAN :
        IF ~ok
        THEN RequestFailed(q)
        ELSE IF ActiveAssignments(doctor_patients) # {}
        THEN SetRequest(q, "done", 400) /\ UNCHANGED log
        ELSE SetRequest(q, "doctor", 0) /\ UNCHANGED log
    /\ UNCHANGED <<elevenlabs, store, pc, locals, response, request, scored>>

\* Lines 713-715: the doctor row.
ReqDoctor(q) ==
    /\ assign_requests[q].pc = "doctor"
    /\ \E ok \in BOOLEAN :
        IF ~ok
        THEN RequestFailed(q)
        ELSE IF assign_requests[q].doctor_id \notin Doctors
        THEN SetRequest(q, "done", 404) /\ UNCHANGED log
        ELSE SetRequest(q, "commit", 0) /\ UNCHANGED log
    /\ UNCHANGED <<elevenlabs, store, pc, locals, response, request, scored>>

\* Lines 716-730: the new row and its commit.  uq_doctor_patient refuses a
\* second row of the same doctor for the patient.
ReqCommit(q) ==
    /\ assign_requests[q].pc = "commit"
    /\ \E ok \in BOOLEAN :
        IF ok /\ ~(\E r \in doctor_patients : r.doctor_id = assign_requests[q].doctor_id)
        THEN /\ doctor_patients' = doctor_patients \cup
                    {[doctor_id |-> assign_requests[q].doctor_id, is_active |-> TRUE]}
             /\ SetRequest(q, "done", 200)
             /\ UNCHANGED log
        ELSE /\ RequestFailed(q)
             /\ UNCHANGED doctor_patients
    /\ UNCHANGED <<elevenlabs, doctor_phone, sentiment_snapshots, messages, alerts,
                   notification_logs, pc, locals, response, request, scored>>

\* The rows as requests that ran one after the other leave them: at most one
\* active row.
RequestInit ==
    /\ elevenlabs = [api_key |-> FALSE, client |-> FALSE]
    /\ doctor_patients \in {rows \in SUBSET [doctor_id : Doctors, is_active : BOOLEAN] :
            /\ \A r1, r2 \in rows : r1.doctor_id = r2.doctor_id => r1 = r2
            /\ \A r1, r2 \in rows : (r1.is_active /\ r2.is_active) => r1 = r2}
    /\ doctor_phone = [d \in Doctors |-> TRUE]
    /\ sentiment_snapshots = <<>>
    /\ messages = <<>>
    /\ alerts = <<>>
    /\ notification_logs = <<>>
    /\ log = {}
    /\ pc = "idle"
    /\ message = <<>>
    /\ sentiment_rating = NeutralRating
    /\ recent_sentiments = <<>>
    /\ evaluated = FALSE
    /\ verdict = NotCritical
    /\ doctor = "unset"
    /\ alert_commit = "none"
    /\ voice = "none"
    /\ sms = "none"
    /\ response = NoResponse
    /\ entry = "none"
    /\ scored = "none"
    /\ words_left = 0
    /\ client_gone = FALSE
    /\ assign_requests = NoAssignRequests

RequestNext ==
    \E q \in Requesters :
        \/ ReqStart(q)
        \/ ReqCheck(q)
        \/ ReqDoctor(q)
        \/ ReqCommit(q)

RequestSpec == RequestInit /\ [][RequestNext]_vars

\* ------------------------------------------------------------------------
\* check_critical_mood_and_alert entered directly, lines 38-67 only: any
\* rating, any utterance, and any stored history, the empty one included.
EvalMaxStored == 6

EvalInit ==
    /\ elevenlabs = [api_key |-> FALSE, client |-> FALSE]
    /\ doctor_patients = {}
    /\ doctor_phone = [d \in Doctors |-> TRUE]
    /\ sentiment_snapshots \in SeqsUpTo(StoredValues, EvalMaxStored)
    /\ messages = <<>>
    /\ alerts = <<>>
    /\ notification_logs = <<>>
    /\ log = {}
    /\ pc = "cc_load"
    /\ message \in Utterances
    /\ sentiment_rating \in ScoreValues
    /\ recent_sentiments = <<>>
    /\ evaluated = FALSE
    /\ verdict = NotCritical
    /\ doctor = "unset"
    /\ alert_commit = "none"
    /\ voice = "none"
    /\ sms = "none"
    /\ response = NoResponse
    /\ entry = "none"
    /\ scored = "none"
    /\ words_left = 0
    /\ client_gone = FALSE
    /\ assign_requests = NoAssignRequests

EvalSpec == EvalInit /\ [][CcLoad]_vars

\* ------------------------------------------------------------------------
\* The two rating rules on a wider range of numbers: lines 38-67 entered with
\* histories of up to TrendMaxStored ratings between 1.5 and 3.0 and with a
\* current rating that is not among them.
TrendMaxStored == 3

TrendStored == {15, 18, 20, 22, 25, 30}
TrendRatings == {5, 10, 15, 16, 30}
TrendUtterances == {UHello, UShout, UForgive}

TrendInit ==
    /\ elevenlabs = [api_key |-> FALSE, client |-> FALSE]
    /\ doctor_patients = {}
    /\ doctor_phone = [d \in Doctors |-> TRUE]
    /\ sentiment_snapshots \in SeqsUpTo(TrendStored, TrendMaxStored)
    /\ messages = <<>>
    /\ alerts = <<>>
    /\ notification_logs = <<>>
    /\ log = {}
    /\ pc = "cc_load"
    /\ message \in TrendUtterances
    /\ sentiment_rating \in TrendRatings
    /\ recent_sentiments = <<>>
    /\ evaluated = FALSE
    /\ verdict = NotCritical
    /\ doctor = "unset"
    /\ alert_commit = "none"
    /\ voice = "none"
    /\ sms = "none"
    /\ response = NoResponse
    /\ entry = "none"
    /\ scored = "none"
    /\ words_left = 0
    /\ client_gone = FALSE
    /\ assign_requests = NoAssignRequests

TrendSpec == TrendInit /\ [][CcLoad]_vars

\* ------------------------------------------------------------------------
\* One invocation of check_critical_mood_and_alert from api_chat, from its
\* first line to its return, every step taken as soon as it can be: the
\* calls of lines 38-152 are synchronous and nothing waits on another thread.
PipelineUtterances == {UHello, UShout}

PipelineInit ==
    /\ elevenlabs \in {e \in [api_key : BOOLEAN, client : BOOLEAN] : e.client => e.api_key}
    /\ doctor_patients \in {rows \in SUBSET [doctor_id : Doctors, is_active : BOOLEAN] :
            \A r1, r2 \in rows : r1.doctor_id = r2.doctor_id => r1 = r2}
    /\ doctor_phone \in {f \in [Doctors -> BOOLEAN] : f["d1"]}
    /\ \E rating \in ScoreValues, before \in SeqsUpTo(StoredValues, MaxStored) :
            /\ sentiment_rating = rating
            /\ sentiment_snapshots = <<rating>> \o before
    /\ message \in PipelineUtterances
    /\ messages = <<[sender |-> "patient", text |-> message],
                    [sender |-> "ai", text |-> "reply"]>>
    /\ alerts = <<>>
    /\ notification_logs = <<>>
    /\ log = {}
    /\ pc = "cc_load"
    /\ recent_sentiments = <<>>
    /\ evaluated = FALSE
    /\ verdict = NotCritical
    /\ doctor = "unset"
    /\ alert_commit = "none"
    /\ voice = "none"
    /\ sms = "none"
    /\ response = NoResponse
    /\ entry = "chat"
    /\ scored = "ok"
    /\ words_left = 0
    /\ client_gone = FALSE
    /\ assign_requests = NoAssignRequests

PipelineNext ==
    \/ CcLoad
    \/ CcLookup
    \/ CcCommit
    \/ CcCallDoctor
    \/ CdPatient
    \/ CdPayload
    \/ CdVoice
    \/ CdSms

PipelineSpec == PipelineInit /\ [][PipelineNext]_vars /\ WF_vars(PipelineNext)

\* ------------------------------------------------------------------ claims
VoiceAttempted == voice \in {"sent", "exception", "non_2xx"}
SmsAttempted == sms \in {"sent", "failed", "raised"}

\* The rapid-decline rule as the specification words it, in tenths:
\* at least 3 entries, mean of the 3 newest <= 2.0, current < mean - 1.0.
DeclineRuleHolds ==
    /\ Len(recent_sentiments) >= 3
    /\ recent_sentiments[1] + recent_sentiments[2] + recent_sentiments[3] <= 60
    /\ 3 * sentiment_rating
         < recent_sentiments[1] + recent_sentiments[2] + recent_sentiments[3] - 30

\* Some lexicon phrase is a contiguous part of the lower-cased utterance
\* (tabulated once for the utterances of the model).
PhraseIn(text) ==
    LET low == Lower(text)
    IN  \E n \in 1..Len(crisis_keywords) :
            \E i \in 1..Len(low) :
                /\ i + Len(crisis_keywords[n]) - 1 <= Len(low)
                /\ SubSeq(low, i, i + Len(crisis_keywords[n]) - 1) = crisis_keywords[n]

PhraseTable == [u \in Utterances \cup {<<>>} |-> PhraseIn(u)]

PhraseOccurs == PhraseTable[message]

NoTriggerFires ==
    /\ evaluated
    /\ sentiment_rating > 15
    /\ ~DeclineRuleHolds
    /\ ~PhraseOccurs

\* C1: an evaluation in which no trigger fires (rating > 1.5, no rapid
\* decline, no lexicon phrase) creates no Alert row and no NotificationLog
\* row and makes no voice or SMS attempt.
C1_NoTriggerNoEscalation ==
    NoTriggerFires =>
        /\ alerts = <<>>
        /\ notification_logs = <<>>
        /\ ~VoiceAttempted /\ voice = "none"
        /\ ~SmsAttempted /\ sms = "none"
        /\ alert_commit = "none"

C1_Witness ==
    /\ NoTriggerFires
    /\ pc = "done"
    /\ response.status = 200
    /\ \E r \in doctor_patients : r.is_active

\* C2: one invocation creates at most one Alert row, whichever of the floor,
\* rapid-decline and crisis-keyword triggers fire together.
C2_AtMostOneAlert == Len(alerts) <= 1

C2_Witness ==
    /\ Len(alerts) = 1
    /\ sentiment_rating <= 15
    /\ DeclineRuleHolds
    /\ PhraseOccurs

\* C3: a voice or SMS step is reached only after the Alert commit of the
\* event has succeeded, and a failed commit is followed by no channel step.
C3_AttemptsOnlyAfterCommit ==
    /\ (voice # "none" \/ sms # "none") => (alert_commit = "ok" /\ Len(alerts) = 1)
    /\ alert_commit = "raised" =>
            (alerts = <<>> /\ voice = "none" /\ sms = "none"
             /\ pc \in {"chat_reply", "done"})

C3_Witness ==
    /\ alert_commit = "ok"
    /\ Len(alerts) = 1
    /\ VoiceAttempted
    /\ SmsAttempted

\* C4: however the voice step fails (not configured, transport error,
\* non-2xx response, exception while the call is prepared), the SMS attempt
\* for the same Alert is still made.
C4_SmsAttemptedWhenVoiceFails ==
    (pc \in {"chat_reply", "done"}
        /\ voice \in {"not_configured", "prep_error", "exception", "non_2xx"})
    => SmsAttempted

\* C5: no failure of a notification channel leaves the dispatcher: with the
\* voice and the SMS attempt both failed, control is back in api_chat, the
\* Alert is persisted, and the request ends with the AI reply (or with the
\* 500 of a store read that failed in api_chat itself, at line 392).
BothChannelsFailed ==
    /\ voice \in {"exception", "non_2xx"}
    /\ sms \in {"failed", "raised"}

C5_ChannelFailuresContained ==
    BothChannelsFailed =>
        /\ pc \in {"chat_reply", "done"}
        /\ alert_commit = "ok" /\ Len(alerts) = 1
        /\ \A e \in log : e[2] = "Chat error" => e[3] = "chat_reply"
        /\ pc = "done" =>
            \/ response = [status |-> 200, body |-> "reply"]
            \/ (response.status = 500 /\ <<"error", "Chat error", "chat_reply">> \in log)

C5_Witness ==
    /\ voice = "exception"
    /\ sms = "raised"
    /\ pc = "done"
    /\ response = [status |-> 200, body |-> "reply"]
    /\ Len(alerts) = 1

\* C6: when the Alert commit raises, the escalation stops and api_chat still
\* returns the AI reply with a success response.
C6_ChatSucceedsWhenAlertCommitRaises ==
    (pc = "done" /\ alert_commit = "raised") =>
        /\ voice = "none" /\ sms = "none"
        /\ response = [status |-> 200, body |-> "reply"]

\* C7: a critical verdict for a patient without an active DoctorAssignment
\* creates no Alert row, makes no voice or SMS attempt, and leaves an
\* operational log entry.
CriticalWithoutAssignment ==
    /\ evaluated
    /\ verdict.is_critical
    /\ ~(\E r \in doctor_patients : r.is_active)

C7_NoAssignmentNoAlertButLogged ==
    /\ CriticalWithoutAssignment =>
            (alerts = <<>> /\ alert_commit = "none" /\ voice = "none" /\ sms = "none")
    /\ (CriticalWithoutAssignment /\ pc \in {"chat_reply", "done"}) =>
            \/ <<"warning", "Critical patient has no assigned doctor for emergency contact", "cc_lookup">> \in log
            \/ <<"error", "Error in critical mood check", "cc_lookup">> \in log

C7_Witness ==
    /\ CriticalWithoutAssignment
    /\ doctor_patients # {}
    /\ doctor = "none"
    /\ pc = "done"
    /\ <<"warning", "Critical patient has no assigned doctor for emergency contact", "cc_lookup">> \in log

\* C8: every channel attempt made for an Alert has exactly one
\* NotificationLog row, Failed for a failed attempt and Sent for a
\* successful one.
LogsOf(channel) ==
    {i \in 1..Len(notification_logs) : notification_logs[i].channel = channel}

C8_OneLogRowPerAttempt ==
    /\ VoiceAttempted =>
        /\ Cardinality(LogsOf("voice")) = 1
        /\ \A i \in LogsOf("voice") :
              notification_logs[i].status = (IF voice = "sent" THEN "sent" ELSE "failed")
    /\ SmsAttempted =>
        /\ Cardinality(LogsOf("sms")) = 1
        /\ \A i \in LogsOf("sms") :
              notification_logs[i].status = (IF sms = "sent" THEN "sent" ELSE "failed")

\* C9: when the lower-cased utterance contains a lexicon phrase the verdict
\* is critical, SuicidalIdeation, with the crisis rationale, whether or not a
\* trend trigger fired; without a phrase the crisis detector does not
\* trigger, and the stored Alert carries the verdict's type and rationale.
C9_CrisisPrecedence ==
    evaluated =>
        /\ IF PhraseOccurs
           THEN verdict = [is_critical |-> TRUE, alert_type |-> "suicidal_ideation",
                           rationale |-> <<"Crisis language detected in conversation">>]
           ELSE /\ verdict.alert_type # "suicidal_ideation"
                /\ verdict.rationale # <<"Crisis language detected in conversation">>
                /\ verdict.is_critical <=> (sentiment_rating <= 15 \/ DeclineRuleHolds)
        /\ \A i \in 1..Len(alerts) :
                /\ alerts[i].alert_type = verdict.alert_type
                /\ alerts[i].rationale = verdict.rationale

C9_Witness ==
    /\ evaluated
    /\ message = UShout
    /\ sentiment_rating = 5
    /\ DeclineRuleHolds
    /\ verdict.alert_type = "suicidal_ideation"
    /\ Len(alerts) = 1

\* C10: for every rating <= 1.5, 1.5 itself included, and every history,
\* the empty one included, the trend evaluation triggers and the verdict is
\* critical.
C10_FloorAlwaysCritical ==
    (evaluated /\ sentiment_rating <= 15) =>
        /\ verdict.is_critical
        /\ ~PhraseOccurs =>
            /\ verdict.alert_type = "severe_depression"
            /\ verdict.rationale[1] \in {"Very low mood detected", "Rapid mood decline detected"}

C10_Witness ==
    /\ evaluated
    /\ sentiment_rating = 15
    /\ recent_sentiments = <<>>
    /\ ~PhraseOccurs
    /\ verdict.is_critical

\* C11: without a lexicon phrase in the way, the verdict carries the
\* rapid-decline rationale exactly when the history has at least 3 entries,
\* the mean of the 3 newest is <= 2.0 and the current rating is strictly
\* below that mean minus 1.0; never with fewer than 3 entries, never when
\* the current rating equals the mean minus 1.0.
MeanMinusOneTie ==
    /\ Len(recent_sentiments) >= 3
    /\ 3 * sentiment_rating
         = recent_sentiments[1] + recent_sentiments[2] + recent_sentiments[3] - 30

DeclineReported ==
    /\ verdict.rationale # <<>>
    /\ verdict.rationale[1] = "Rapid mood decline detected"

MeanToOneDecimal ==
    LET sum == recent_sentiments[1] + recent_sentiments[2] + recent_sentiments[3]
    IN  CHOOSE a \in 0..50 : 3 * a - sum \in {-1, 0, 1}

C12_TrendVerdictSevereDepression ==
    (evaluated /\ ~PhraseOccurs /\ (sentiment_rating <= 15 \/ DeclineRuleHolds)) =>
        /\ verdict.is_critical
        /\ verdict.alert_type = "severe_depression"
        /\ verdict.rationale =
             IF DeclineRuleHolds
             THEN <<"Rapid mood decline detected", sentiment_rating, MeanToOneDecimal>>
             ELSE <<"Very low mood detected", sentiment_rating>>

C12_Witness ==
    /\ evaluated
    /\ ~PhraseOccurs
    /\ recent_sentiments = <<20, 18, 22>>
    /\ sentiment_rating = 5
    /\ verdict = [is_critical |-> TRUE, alert_type |-> "severe_depression",
                  rationale |-> <<"Rapid mood decline detected", 5, 20>>]

\* C13: the trigger data of every Alert holds the set of all lexicon phrases
\* that occur in the utterance, next to the current rating and the rating
\* trail.
MatchedIn(text) ==
    LET low == Lower(text)
    IN  {crisis_keywords[n] : n \in {k \in 1..Len(crisis_keywords) :
            \E i \in 1..Len(low) :
                /\ i + Len(crisis_keywords[k]) - 1 <= Len(low)
                /\ SubSeq(low, i, i + Len(crisis_keywords[k]) - 1) = crisis_keywords[k]}}

MatchedTable == [u \in Utterances \cup {<<>>} |-> MatchedIn(u)]

C13_EvidenceHoldsMatchedKeywords ==
    \A i \in 1..Len(alerts) :
        /\ alerts[i].trigger_data.sentiment_rating = sentiment_rating
        /\ alerts[i].trigger_data.recent_ratings = recent_sentiments
        /\ "matched_keywords" \in DOMAIN alerts[i].trigger_data
        /\ alerts[i].trigger_data.matched_keywords = MatchedTable[message]

\* C14: the text kept in an Alert's trigger data is the first 200 characters
\* of the utterance, the whole utterance when it is shorter; a longer
\* utterance raises no error; the patient Message row of the utterance keeps
\* the full text.
C14_SnippetIsFirst200 ==
    /\ \A i \in 1..Len(alerts) :
        LET snippet == alerts[i].trigger_data.conversation_snippet
        IN  /\ Len(snippet) = (IF Len(message) <= 200 THEN Len(message) ELSE 200)
            /\ \A k \in 1..Len(snippet) : snippet[k] = message[k]
    /\ \A j \in 1..Len(messages) :
        messages[j].sender = "patient" => messages[j].text = message
    /\ (Len(message) > 200 /\ Len(alerts) = 1) =>
            ~(\E e \in log : e[3] \in {"cc_commit", "chat_persist"})

C14_Witness ==
    /\ Len(message) > 200
    /\ Len(alerts) = 1
    /\ Len(alerts[1].trigger_data.conversation_snippet) = 200
    /\ Len(messages) = 2
    /\ Len(messages[1].text) = Len(message)
    /\ pc = "done"
    /\ response = [status |-> 200, body |-> "reply"]

\* C15: on each entry path, when the sentiment scorer fails the handler
\* goes on with the neutral rating 3.0: the user-facing flow is not aborted
\* (a failure response has another cause, logged elsewhere) and, unless
\* such an error follows, the utterance is evaluated.
ErrorAfterScoring ==
    \E e \in log : e[1] = "error" /\ e[3] \notin {"st_score", "vo_score"}

C15_ScorerFailureContinuesNeutral ==
    scored = "failed" =>
        /\ sentiment_rating = NeutralRating
        /\ response.body \in {"Stream failed.", "I apologize for the technical issue.",
                              "I apologize, but I encountered a technical issue."}
             => ErrorAfterScoring
        /\ (pc = "done" /\ ~ErrorAfterScoring) => evaluated

\* C16: the handling of an accepted utterance that ends without an error
\* has scored the utterance and passed it to check_critical_mood_and_alert.
C16_EveryUtteranceScoredAndEvaluated ==
    (pc = "done" /\ entry # "none" /\ ~(\E e \in log : e[1] = "error")) =>
        /\ scored # "none"
        /\ evaluated

\* C17: the history the trend evaluation of api_chat works on is the
\* patient's history as it was before the current utterance: its newest
\* entries are the rows stored before the request, the row of the current
\* utterance not among them.
HistoryBeforeUtterance == Prefix(Tail(sentiment_snapshots), HistoryLimit)

C17_HistoryExcludesCurrentRating ==
    (evaluated /\ entry = "chat") => recent_sentiments = HistoryBeforeUtterance

\* C18: every invocation of the escalation pipeline returns, and when it
\* has returned it is in exactly one of four outcomes: NotDispatched (no
\* critical verdict), AssignmentMissing (critical verdict, no active
\* assignment), Done (Alert persisted, the voice step finished or skipped as
\* not configured, the SMS attempted), or Aborted (an error logged by the
\* pipeline, a store failure or a doctor without a phone, ended it before
\* the SMS step).
PipelineReturned == pc = AfterCheck(entry)

NotDispatched == evaluated /\ ~verdict.is_critical

AssignmentMissing == evaluated /\ verdict.is_critical /\ doctor = "none"

EscalationDone ==
    /\ alert_commit = "ok"
    /\ Len(alerts) = 1
    /\ voice \in {"sent", "exception", "non_2xx", "not_configured"}
    /\ SmsAttempted

EscalationAborted ==
    /\ ~SmsAttempted
    /\ \E e \in log :
        /\ e[1] = "error"
        /\ e[3] \in {"cc_load", "cc_lookup", "cc_commit", "cc_call", "cd_patient", "cd_payload"}

OutcomesReached(outcomes) == Cardinality({i \in 1..Len(outcomes) : outcomes[i]})

C19_ReplyDoesNotWaitForChannels ==
    (entry = "chat" /\ pc \in {"cd_voice", "cd_sms"}) => response # NoResponse

\* C20: a stream request that the client abandoned while the reply words
\* were being streamed has, when its handling is over, still had its
\* utterance evaluated by check_critical_mood_and_alert.
C20_AbandonedStreamStillEvaluated ==
    (entry = "stream" /\ client_gone /\ pc = "done") => evaluated

\* C21: a critical verdict for a patient with more than one active
\* DoctorPatient row is surfaced (logged) and no Alert is committed for one
\* of the doctors; the dispatcher goes on only with exactly one active row.
ActiveRows == {r \in doctor_patients : r.is_active}

SurfacedInLog ==
    \E e \in log : e[1] \in {"warning", "error"} /\ e[3] = "cc_lookup"

C21_SeveralAssignmentsSurfaced ==
    /\ alert_commit # "none" => Cardinality(ActiveRows) = 1
    /\ (evaluated /\ verdict.is_critical /\ Cardinality(ActiveRows) > 1
            /\ pc \in {"chat_reply", "done"})
        => (SurfacedInLog /\ alerts = <<>>)

\* C22: when the doctor of the assignment has no phone, only the SMS is
\* stopped: the stop is logged, api_chat is not reached by an exception, the
\* Alert stays persisted and the voice step is still taken.
NoPhoneStop ==
    /\ alert_commit = "ok"
    /\ doctor \in Doctors
    /\ ~doctor_phone[doctor]
    /\ pc \in {"chat_reply", "done"}
    /\ <<"error", "Doctor has no phone number for emergency contact", "cc_call">> \in log

C22_NoPhoneStopsSmsOnly ==
    NoPhoneStop =>
        /\ Len(alerts) = 1
        /\ ~(\E e \in log : e[2] = "Chat error" /\ e[3] # "chat_reply")
        /\ sms = "none"
        /\ voice # "none"

\* C23: for the Alert of a request the voice step and the SMS step are
\* each taken at most once: a step is entered only while its channel has no
\* outcome yet, and an outcome, failed or not, is never replaced.
C23_AtMostOneAttemptPerChannel ==
    /\ Len(alerts) <= 1
    /\ pc = "cd_voice" => (voice = "none" /\ sms = "none")
    /\ pc = "cd_sms" => (voice \notin {"none", "prep_error"} /\ sms = "none")
    /\ sms # "none" => pc \in {"chat_reply", "done"}

C23_Witness ==
    /\ Len(alerts) = 1
    /\ voice \in {"exception", "non_2xx"}
    /\ sms = "failed"
    /\ pc = "done"

\* C24: whenever the rapid-decline rule holds the current rating is <= 1.5
\* (indeed below 1.0), so without a lexicon phrase the verdict is critical
\* exactly when the rating is <= 1.5, and the decline rule changes nothing
\* in it but the rationale.
C24_DeclineImpliesFloor ==
    evaluated =>
        /\ DeclineRuleHolds => (sentiment_rating < 10 /\ sentiment_rating <= 15)
        /\ ~PhraseOccurs =>
            /\ verdict.is_critical <=> sentiment_rating <= 15
            /\ [verdict EXCEPT !.rationale = <<>>] =
                 IF sentiment_rating <= 15
                 THEN [is_critical |-> TRUE, alert_type |-> "severe_depression",
                       rationale |-> <<>>]
                 ELSE [is_critical |-> FALSE, alert_type |-> "None", rationale |-> <<>>]

C24_Witness ==
    /\ evaluated
    /\ ~PhraseOccurs
    /\ DeclineRuleHolds
    /\ recent_sentiments = <<25, 20, 15>>
    /\ sentiment_rating = 5
    /\ verdict.rationale[1] = "Rapid mood decline detected"

\* C25: whatever the interleaving of the requests to /api/request-doctor,
\* two of the same patient for different doctors included, the patient has
\* at most one DoctorPatient row with is_active = true.
C25_AtMostOneActiveAssignment == Cardinality(ActiveRows) <= 1

====
